---- MODULE Spec2Model ----
(***************************************************************************)
(* Model of analysis.py: a dataset df, a FloatSlider threshold_slider     *)
(* whose value drives update_display (the summary view, an observer of    *)
(* the slider) and on_prop_clicked (the group-proportions view, a button  *)
(* handler), both writing into the Output widget out.                     *)
(*                                                                         *)
(* Numbers.  Scores are integers.  The slider's value, min and max are    *)
(* held as integer multiples of 1/Len(df) (the initial value is the mean  *)
(* of score, a multiple of 1/Len(df)); Fixed(x, d) converts.  A Series    *)
(* value is a rational [kind, n, d] or NaN; after round(k) it is a        *)
(* rational over 10^k.                                                     *)
(***************************************************************************)
EXTENDS Integers, Sequences, FiniteSets, TLC

VARIABLES df, threshold_slider, listeners, click_handlers, out, pc, last, log

vars == <<df, threshold_slider, listeners, click_handlers, out, pc, last, log>>

\* ---------------------------------------------------------------- bounds
MaxRows == 2
MaxScore == 1
MaxClicks == 2

\* ------------------------------------------------------ program constants
Margin == 5
HeadRows == 10

Groups == <<"A", "B", "C">>

\* ---------------------------------------------------------------- dataset
RowVals == [score : 0..MaxScore, grp : {"A", "B", "C"}]

MkDf(s) == [i \in DOMAIN s |-> [idx |-> i, score |-> s[i].score, grp |-> s[i].grp]]

ScenarioDf ==
    MkDf(<< [score |-> 1, grp |-> "A"], [score |-> 1, grp |-> "A"],
            [score |-> 0, grp |-> "A"], [score |-> 0, grp |-> "A"],
            [score |-> 0, grp |-> "A"], [score |-> 1, grp |-> "B"],
            [score |-> 0, grp |-> "B"], [score |-> 0, grp |-> "B"],
            [score |-> 0, grp |-> "C"], [score |-> 0, grp |-> "C"] >>)

Datasets ==
    { MkDf(s) : s \in UNION { [1..n -> RowVals] : n \in 1..MaxRows } }
        \cup {ScenarioDf}

\* ------------------------------------------------------------ arithmetic
Fixed(x, d) == x * Len(d)

RECURSIVE SumScore(_)
SumScore(s) == IF s = <<>> THEN 0 ELSE Head(s).score + SumScore(Tail(s))

ScoreMin(d) == CHOOSE m \in {d[i].score : i \in DOMAIN d} :
                   \A i \in DOMAIN d : m <= d[i].score

ScoreMax(d) == CHOOSE m \in {d[i].score : i \in DOMAIN d} :
                   \A i \in DOMAIN d : m >= d[i].score

\* df["score"].mean(), as a multiple of 1/Len(d)
ScoreMean(d) == SumScore(d)

Pow10(k) == IF k = 0 THEN 1 ELSE IF k = 1 THEN 10 ELSE IF k = 2 THEN 100 ELSE 1000

Num(n, d) == [kind |-> "num", n |-> n, d |-> d]
NaN == [kind |-> "nan", n |-> 0, d |-> 0]

RoundFloor(q, k) ==
    IF q.kind = "nan" THEN q ELSE Num((q.n * Pow10(k)) \div q.d, Pow10(k))

\* Series.round(k): round half to even, NaN stays NaN
Round(q, k) ==
    IF q.kind = "nan" THEN q
    ELSE LET num == q.n * Pow10(k)
             quo == num \div q.d
             rem == num % q.d
         IN  Num(IF 2 * rem < q.d THEN quo
                 ELSE IF 2 * rem > q.d THEN quo + 1
                 ELSE IF quo % 2 = 0 THEN quo ELSE quo + 1,
                 Pow10(k))

\* ------------------------------------------------------------ FloatSlider
ClampNone(x, lo, hi) == x

ClampLow(x, lo, hi) == IF x < lo THEN lo ELSE x

\* the bounded-float validation of the slider's value
Clamp(x, lo, hi) == IF x < lo THEN lo ELSE IF x > hi THEN hi ELSE x

FloatSlider(d) ==
    LET lo == Fixed(ScoreMin(d) - Margin, d)
        hi == Fixed(ScoreMax(d) + Margin, d)
    IN  [value |-> Clamp(ScoreMean(d), lo, hi), min |-> lo, max |-> hi]

SilentNever(old, new) == FALSE

\* a trait assignment that leaves the value equal notifies nobody
Silent(old, new) == old = new

\* ------------------------------------------------------- pandas operations
SubsetStrict(d, t) == SelectSeq(d, LAMBDA r : Fixed(r.score, d) > t)

\* df[df["score"] >= t]
Subset(d, t) == SelectSeq(d, LAMBDA r : Fixed(r.score, d) >= t)

RECURSIVE CountIn(_, _)
CountIn(s, g) ==
    IF s = <<>> THEN 0
    ELSE (IF Head(s).grp = g THEN 1 ELSE 0) + CountIn(Tail(s), g)

FirstPos(s, g) == CHOOSE i \in DOMAIN s :
                      s[i].grp = g /\ \A j \in 1..(i - 1) : s[j].grp # g

Present(s) == {s[i].grp : i \in DOMAIN s}

KeyOrd(g) == CHOOSE i \in DOMAIN Groups : Groups[i] = g

\* the labels of s in the order value_counts lists them: by count,
\* descending, ties by first appearance
CountOrder(s) ==
    LET P == Present(s)
    IN  CHOOSE o \in [1..Cardinality(P) -> P] :
            /\ \A i, j \in DOMAIN o : i # j => o[i] # o[j]
            /\ \A i, j \in DOMAIN o : i < j =>
                  \/ CountIn(s, o[i]) > CountIn(s, o[j])
                  \/ /\ CountIn(s, o[i]) = CountIn(s, o[j])
                     /\ FirstPos(s, o[i]) < FirstPos(s, o[j])

\* subset["group"].value_counts(normalize=...)
ValueCounts(s, normalize) ==
    LET o == CountOrder(s)
    IN  [i \in DOMAIN o |->
            [k |-> o[i],
             v |-> Num(CountIn(s, o[i]), IF normalize THEN Len(s) ELSE 1)]]

\* Series.sort_index()
SortIndex(ser) ==
    IF ser = <<>> THEN ser
    ELSE CHOOSE p \in [DOMAIN ser -> {ser[i] : i \in DOMAIN ser}] :
            /\ \A i, j \in DOMAIN p : i # j => p[i] # p[j]
            /\ \A i, j \in DOMAIN p : i < j => KeyOrd(p[i].k) < KeyOrd(p[j].k)

RECURSIVE SumOf(_, _)
SumOf(s, g) ==
    IF s = <<>> THEN 0
    ELSE (IF Head(s).grp = g THEN Head(s).score ELSE 0) + SumOf(Tail(s), g)

\* subset.groupby("group")["score"].mean().round(2): the groups present,
\* in sorted label order
GroupMeans(s) ==
    LET keys == SelectSeq(Groups, LAMBDA g : g \in Present(s))
    IN  [i \in DOMAIN keys |->
            [k |-> keys[i],
             v |-> Round(Num(SumOf(s, keys[i]), CountIn(s, keys[i])), 2)]]

GetFirst(ser, key, default) == IF ser = <<>> THEN default ELSE ser[1].v

\* Series.get(key, default)
Get(ser, key, default) ==
    IF \E i \in DOMAIN ser : ser[i].k = key
    THEN ser[CHOOSE i \in DOMAIN ser : ser[i].k = key].v
    ELSE default

\* Series.reindex(keys)
Reindex(ser, keys) ==
    [i \in DOMAIN keys |-> [k |-> keys[i], v |-> Get(ser, keys[i], NaN)]]

\* Series.fillna(x)
FillNa(ser, x) ==
    [i \in DOMAIN ser |->
        [k |-> ser[i].k, v |-> IF ser[i].v.kind = "nan" THEN x ELSE ser[i].v]]

RoundSeries(ser, k) ==
    [i \in DOMAIN ser |-> [k |-> ser[i].k, v |-> Round(ser[i].v, k)]]

\* DataFrame.head(n)
HeadOf(s, n) == SubSeq(s, 1, IF Len(s) < n THEN Len(s) ELSE n)

compute_proportions(d, threshold) ==
    RoundSeries(FillNa(Reindex(ValueCounts(Subset(d, threshold), TRUE), Groups),
                       Num(0, 1)), 3)

\* ---------------------------------------------------------- output area
ClearNothing(o) == o

\* clear_output(wait=True) followed by the next display
clear_output(o) == <<>>

\* the f-string of update_display: threshold to 2 places, total, counts
\* and means in the order A, B, C
SummaryMarkdown(d, thresh) ==
    LET subset == Subset(d, thresh)
        counts_by_group == SortIndex(ValueCounts(subset, FALSE))
        mean_scores == GroupMeans(subset)
    IN  [kind   |-> "markdown",
         view   |-> "summary",
         thresh |-> thresh,
         text   |-> Round(Num(thresh, Len(d)), 2),
         total  |-> Len(subset),
         of     |-> Len(d),
         counts |-> [i \in DOMAIN Groups |-> Get(counts_by_group, Groups[i], Num(0, 1))],
         means  |-> [i \in DOMAIN Groups |-> Get(mean_scores, Groups[i], NaN)]]

update_display(d, thresh, o) ==
    clear_output(o) \o
        << SummaryMarkdown(d, thresh),
           [kind |-> "dataframe", view |-> "summary", thresh |-> thresh,
            rows |-> HeadOf(Subset(d, thresh), HeadRows)] >>

on_prop_clicked(d, thresh, o) ==
    o \o << [kind |-> "markdown", view |-> "proportions",
             title |-> "Group proportions (for current threshold)"],
            [kind |-> "series", view |-> "proportions", thresh |-> thresh,
             prop |-> compute_proportions(d, thresh)] >>

CallListener(name, d, v, o) ==
    IF name = "update_display" THEN update_display(d, v, o) ELSE o

\* the observers of the slider's value, called in registration order
RECURSIVE Notify(_, _, _, _)
Notify(ls, d, v, o) ==
    IF ls = <<>> THEN o
    ELSE Notify(Tail(ls), d, v, CallListener(Head(ls), d, v, o))

ObserveRenders(d, v, o) == update_display(d, v, o)

\* observe() registers the handler and calls nothing
ObserveEffect(d, v, o) == o

LogOnce(l, e) == IF \E i \in DOMAIN l : l[i] = e THEN l ELSE Append(l, e)

NoEvent == [op |-> "none", x |-> 0, old |-> 0, notified |-> <<>>]

\* ---------------------------------------------------------------- actions
Init ==
    /\ df \in Datasets
    /\ threshold_slider = FloatSlider(df)
    /\ listeners = <<>>
    /\ click_handlers = <<>>
    /\ out = <<>>
    /\ pc = "observe"
    /\ last = NoEvent
    /\ log = <<>>

\* threshold_slider.observe(update_display, names='value')
Observe ==
    /\ pc = "observe"
    /\ listeners' = Append(listeners, "update_display")
    /\ out' = ObserveEffect(df, threshold_slider.value, out)
    /\ log' = Append(log, "subscribe:summary")
    /\ pc' = "render"
    /\ UNCHANGED <<df, threshold_slider, click_handlers, last>>

\* display(threshold_slider); display(out); update_display()
InitialRender ==
    /\ pc = "render"
    /\ out' = update_display(df, threshold_slider.value, out)
    /\ log' = Append(log, "render:summary")
    /\ pc' = "cell3"
    /\ UNCHANGED <<df, threshold_slider, listeners, click_handlers, last>>

\* prop_button.on_click(on_prop_clicked); display(prop_button)
WireButton ==
    /\ pc = "cell3"
    /\ click_handlers' = Append(click_handlers, "on_prop_clicked")
    /\ log' = Append(log, "subscribe:proportions")
    /\ pc' = "idle"
    /\ UNCHANGED <<df, threshold_slider, listeners, out, last>>

\* the inputs a slider event is tried with: one step outside each end of
\* the domain, the ends, the scores and one step above the largest
SetInputs(d) ==
    {ScoreMin(d) - Margin - 1, ScoreMin(d) - Margin,
     ScoreMax(d) + Margin, ScoreMax(d) + Margin + 1}
        \cup (ScoreMin(d)..(ScoreMax(d) + 1))

\* threshold_slider.value = x, by the front end or by code
Set(x) ==
    /\ pc \in {"cell3", "idle"}
    /\ LET old == threshold_slider.value
           new == Clamp(Fixed(x, df), threshold_slider.min, threshold_slider.max)
           called == IF Silent(old, new) THEN <<>> ELSE listeners
       IN  /\ threshold_slider' = [threshold_slider EXCEPT !.value = new]
           /\ out' = Notify(called, df, new, out)
           /\ last' = [op |-> "set", x |-> x, old |-> old, notified |-> called]
    /\ log' = LogOnce(log, "set")
    /\ UNCHANGED <<df, listeners, click_handlers, pc>>

NumSeries(o) == Cardinality({i \in DOMAIN o : o[i].kind = "series"})

\* a click on prop_button
Click ==
    /\ pc = "idle"
    /\ click_handlers # <<>>
    /\ NumSeries(out) < MaxClicks
    /\ out' = on_prop_clicked(df, threshold_slider.value, out)
    /\ last' = [NoEvent EXCEPT !.op = "click"]
    /\ log' = LogOnce(log, "render:proportions")
    /\ UNCHANGED <<df, threshold_slider, listeners, click_handlers, pc>>

SetEvent == \E x \in SetInputs(df) : Set(x)

Next == Observe \/ InitialRender \/ WireButton \/ SetEvent \/ Click

Spec == Init /\ [][Next]_vars

\* ------------------------------------------------------- claim vocabulary
InDomain(x) ==
    /\ Fixed(x, df) >= threshold_slider.min
    /\ Fixed(x, df) <= threshold_slider.max

Has(l, e) == \E i \in DOMAIN l : l[i] = e

Pos(l, e) == CHOOSE i \in DOMAIN l : l[i] = e

Before(l, a, b) == Has(l, a) /\ Has(l, b) /\ Pos(l, a) < Pos(l, b)

Times(l, e) == Cardinality({i \in DOMAIN l : l[i] = e})

IsSummary(a) == a.kind = "markdown" /\ a.view = "summary"

\* the artifacts computed from a threshold: summary text, head, proportions
IsComputed(a) == IsSummary(a) \/ a.kind = "dataframe" \/ a.kind = "series"

Running == pc \in {"cell3", "idle"}

\* the indices of the rows of df with score >= t / Len(df)
Selected(t) == {j \in DOMAIN df : df[j].score * Len(df) >= t}

SelectedIn(t, g) == {j \in Selected(t) : df[j].grp = g}

RECURSIVE SetSum(_)
SetSum(S) == IF S = {} THEN 0
             ELSE LET j == CHOOSE j \in S : TRUE
                  IN  df[j].score + SetSum(S \ {j})

Abs(n) == IF n < 0 THEN 0 - n ELSE n

C3_AbsentMeanIsZero ==
    \A i \in DOMAIN out : IsSummary(out[i]) =>
        \A k \in DOMAIN Groups :
            SelectedIn(out[i].thresh, Groups[k]) = {} =>
                /\ out[i].counts[k] = Num(0, 1)
                /\ out[i].means[k].kind = "num"
                /\ out[i].means[k].n = 0

\* C3 amended: for any threshold the summary has one count and one mean
\* per category, in the order A, B, C; the count is the number of selected
\* rows of the category, the mean is their mean score to 2 places, and a
\* category with no selected row has count 0 and mean NaN.
C3_CategoryCompleteness ==
    \A i \in DOMAIN out : IsSummary(out[i]) =>
        /\ DOMAIN out[i].counts = DOMAIN Groups
        /\ DOMAIN out[i].means = DOMAIN Groups
        /\ \A k \in DOMAIN Groups :
              LET S == SelectedIn(out[i].thresh, Groups[k])
                  m == out[i].means[k]
              IN  /\ out[i].counts[k] = Num(Cardinality(S), 1)
                  /\ (S = {} => m = NaN)
                  /\ (S # {} =>
                        /\ m.kind = "num"
                        /\ m.d = 100
                        /\ 2 * Abs(m.n * Cardinality(S) - 100 * SetSum(S))
                               <= Cardinality(S))

C3_Witness ==
    /\ pc = "idle"
    /\ \E i \in DOMAIN out :
          /\ IsSummary(out[i])
          /\ out[i].total > 0
          /\ \E k \in DOMAIN Groups :
                out[i].counts[k] = Num(0, 1) /\ out[i].means[k] = NaN

\* ------------------------------------------------------------------ C5
\* C5: whenever no handler is running, every artifact in the output area
\* was computed from the slider's current value, and the listeners run by
\* a set(x) with x in the domain read x.
C5_ArtifactsAreCurrent ==
    /\ Running =>
          \A i \in DOMAIN out :
              IsComputed(out[i]) => out[i].thresh = threshold_slider.value
    /\ (last.op = "set" /\ InDomain(last.x) /\ last.notified # <<>>) =>
          \E i \in DOMAIN out :
              IsSummary(out[i]) /\ out[i].thresh = Fixed(last.x, df)

C5_Witness ==
    /\ last.op = "set"
    /\ last.notified # <<>>
    /\ Before(log, "render:proportions", "set")
    /\ \A i \in DOMAIN out : out[i].kind # "series"

C7_ValueInDomain ==
    /\ threshold_slider.min = (ScoreMin(df) - Margin) * Len(df)
    /\ threshold_slider.max = (ScoreMax(df) + Margin) * Len(df)
    /\ threshold_slider.value >= threshold_slider.min
    /\ threshold_slider.value <= threshold_slider.max
    /\ (pc = "observe" => threshold_slider.value = SetSum(DOMAIN df))
    /\ (last.op = "set" /\ InDomain(last.x)) =>
          threshold_slider.value = Fixed(last.x, df)

C7_Witness ==
    /\ last.op = "set"
    /\ InDomain(last.x)
    /\ threshold_slider.value = threshold_slider.max
    /\ threshold_slider.value # last.old

\* ------------------------------------------------------------------ C8
\* C8: the subset of threshold t is the rows with score >= t in dataset
\* order; t at or below the minimum score selects every row; t above the
\* maximum score selects none and the artifacts are still produced, with
\* total 0 and counts 0; raising t never increases the subset size.
C8_SubsetIsThresholdFilter ==
    /\ \A i \in DOMAIN out :
          /\ IsSummary(out[i]) =>
                /\ out[i].total = Cardinality(Selected(out[i].thresh))
                /\ out[i].of = Len(df)
                /\ (out[i].thresh <= ScoreMin(df) * Len(df) =>
                       out[i].total = Len(df))
                /\ (out[i].thresh > ScoreMax(df) * Len(df) =>
                       /\ out[i].total = 0
                       /\ \A k \in DOMAIN Groups : out[i].counts[k] = Num(0, 1))
          /\ out[i].kind = "dataframe" =>
                LET r == out[i].rows
                    S == Selected(out[i].thresh)
                IN  /\ \A j \in DOMAIN r : r[j] = df[r[j].idx] /\ r[j].idx \in S
                    /\ \A j, k \in DOMAIN r : j < k => r[j].idx < r[k].idx
                    /\ Len(r) = (IF Cardinality(S) < HeadRows
                                 THEN Cardinality(S) ELSE HeadRows)
                    /\ \A j \in S : (\E k \in DOMAIN r : r[k].idx > j) =>
                                        \E k \in DOMAIN r : r[k].idx = j
          /\ out[i].kind = "series" =>
                (out[i].thresh > ScoreMax(df) * Len(df) =>
                    \A k \in DOMAIN Groups : out[i].prop[k].v = Num(0, 1000))
    /\ \A t1, t2 \in SetInputs(df) : t1 <= t2 =>
          Len(Subset(df, Fixed(t2, df))) <= Len(Subset(df, Fixed(t1, df)))

C8_Witness ==
    /\ threshold_slider.value > ScoreMax(df) * Len(df)
    /\ Len(df) > 1
    /\ \E i \in DOMAIN out : IsSummary(out[i]) /\ out[i].total = 0
    /\ \E i \in DOMAIN out : out[i].kind = "dataframe" /\ out[i].rows = <<>>
    /\ \E i \in DOMAIN out : out[i].kind = "series"

\* ------------------------------------------------------------------ C9
C9_ProportionsState ==
    \A i \in DOMAIN out : out[i].kind = "series" =>
        LET p == out[i].prop
            S == Selected(out[i].thresh)
        IN  /\ DOMAIN p = DOMAIN Groups
            /\ \A k \in DOMAIN Groups :
                  LET c == Cardinality(SelectedIn(out[i].thresh, Groups[k]))
                  IN  /\ p[k].k = Groups[k]
                      /\ p[k].v.kind = "num"
                      /\ p[k].v.d = 1000
                      /\ (c = 0 => p[k].v.n = 0)
                      /\ (c > 0 =>
                            2 * Abs(p[k].v.n * Cardinality(S) - 1000 * c)
                                <= Cardinality(S))

\* C9: compute_proportions returns one entry per category in the order
\* A, B, C: count of the category in the subset over the subset size, to
\* 3 places, 0 when the subset is empty or the category absent (5 A, 3 B,
\* 2 C all selected gives 0.5, 0.3, 0.2); the dataset is never modified.
C9_Proportions == [](C9_ProportionsState) /\ [][df' = df]_vars

C9_Witness ==
    /\ df = ScenarioDf
    /\ \E i \in DOMAIN out :
          /\ out[i].kind = "series"
          /\ Selected(out[i].thresh) = DOMAIN df
          /\ out[i].prop = << [k |-> "A", v |-> Num(500, 1000)],
                              [k |-> "B", v |-> Num(300, 1000)],
                              [k |-> "C", v |-> Num(200, 1000)] >>

\* ------------------------------------------------------------------ C10
\* C10: the output area holds at most one artifact per view: at most one
\* summary and at most one proportions table, however many clicks.
C10_OneArtifactPerView ==
    /\ Cardinality({i \in DOMAIN out : IsSummary(out[i])}) <= 1
    /\ Cardinality({i \in DOMAIN out : out[i].kind = "series"}) <= 1

====
